---- MODULE Spec2Model ----
(***************************************************************************)
(* The callback / ticket protocol of cloud-filter-rs.                      *)
(*                                                                         *)
(* The operating system delivers a terminating callback for a correlation  *)
(* key pair; the dispatch layer builds the ticket of that callback's kind  *)
(* and calls the provider's SyncFilter method; the provider answers        *)
(* through the ticket's methods, each of which builds one command and      *)
(* executes it under the ticket's keys.                                    *)
(*                                                                         *)
(* From the source: the tickets and their methods (filter/ticket.rs) and   *)
(* the SyncFilter trait with its default methods (filter/sync_filter.rs).  *)
(* The command module, the callback proxies and the operating system are   *)
(* modelled after the written design (sections 3 to 8).                    *)
(***************************************************************************)
EXTENDS Integers, Sequences, FiniteSets, TLC

(***************************************************************************)
(* Program constants and the bounds of the model.                          *)
(***************************************************************************)
\* "The buffer passed must be 4KiB in length or end on the logical file size."
PageSize == 4096

\* The largest context blob, in bytes.
BlobLimit == 65536

\* Logical size of the placeholder file being hydrated.
FileSize == 10000

\* Ticket method calls made in one run, by all handlers together.
MaxCalls == 2

\* Entries of a placeholder list.
MaxPlaceholders == 2

ConnectionKeys == {1}
TransferKeys == {1, 2}
KeyPairs == ConnectionKeys \X TransferKeys

TerminatingKinds ==
    {"FetchData", "ValidateData", "FetchPlaceholders", "Dehydrate", "Delete", "Rename"}

CloudErrorKind == {"NotSupported", "InvalidArgument", "IoError", "Cancelled"}

Ok(n) == [tag |-> "Ok", val |-> n, err |-> "None"]
Err(e) == [tag |-> "Err", val |-> 0, err |-> e]
NoResult == [tag |-> "None", val |-> 0, err |-> "None"]
Panic == [tag |-> "Panic", val |-> 0, err |-> "None"]

(***************************************************************************)
(* Byte strings.  A blob is a run of `len` bytes of value `fill`, so that  *)
(* blobs of 65536 bytes and more stay small values.                        *)
(***************************************************************************)
Blob(len, fill) == [len |-> len, fill |-> IF len = 0 THEN 0 ELSE fill]
EmptyBlob == Blob(0, 0)
Blobs ==
    {EmptyBlob, Blob(3, 7), Blob(3, 255), Blob(BlobLimit, 7), Blob(BlobLimit + 1, 7)}

\* A placeholder entry is one the file system can create, or one it cannot
\* (its name is taken, say).
PlaceholderFiles == {"creatable", "conflicting"}
RECURSIVE SeqsUpTo(_, _)
SeqsUpTo(S, n) ==
    IF n = 0 THEN {<<>>}
    ELSE LET shorter == SeqsUpTo(S, n - 1)
         IN  shorter \cup {Append(s, x) : s \in {t \in shorter : Len(t) = n - 1}, x \in S}
PlaceholderLists == SeqsUpTo(PlaceholderFiles, MaxPlaceholders)

\* The buffers and offsets a handler reads and writes with.
LastPage == (FileSize \div PageSize) * PageSize
\* <<length of the buffer, offset>>: a whole page, a short buffer inside the
\* file, and the short buffer that ends on the end of the file.
WriteArgs == {<<PageSize, 0>>, <<FileSize - LastPage, 0>>, <<FileSize - LastPage, LastPage>>}
ReadArgs == {<<PageSize, 0>>, <<PageSize, LastPage>>}
\* A page past the end of the file.
PastEnd == <<PageSize, FileSize>>

(***************************************************************************)
(* Commands.  One record shape for all of them; a field a command does not *)
(* have holds its empty value.                                             *)
(***************************************************************************)
Command(op) ==
    [op |-> op, len |-> 0, position |-> 0, blob |-> EmptyBlob,
     range |-> <<0, 0>>, total |-> 0, completed |-> 0, placeholders |-> <<>>,
     status |-> "Success"]

NoArgs ==
    [len |-> 0, offset |-> 0, blob |-> EmptyBlob, range |-> <<0, 0>>,
     total |-> 0, completed |-> 0, placeholders |-> <<>>]

\* A command on its way to the operating system, under a key pair.
Request(cmd, connection_key, transfer_key) ==
    [cmd |-> cmd, connection_key |-> connection_key, transfer_key |-> transfer_key]

KeyOf(req) == <<req.connection_key, req.transfer_key>>

(***************************************************************************)
(* filter/ticket.rs: the tickets.  A ticket holds the key pair it was      *)
(* built with; each method builds one command and executes it under the    *)
(* ticket's connection_key and transfer_key.  No method takes the ticket   *)
(* by value and none keeps a flag: all take &self.                         *)
(***************************************************************************)
\* Mutant: every ticket is bound to the first transfer of its connection.
Ticket_new_first_transfer(kind, connection_key, transfer_key) ==
    [kind |-> kind, connection_key |-> connection_key, transfer_key |-> 1]

Ticket_new(kind, connection_key, transfer_key) ==
    [kind |-> kind, connection_key |-> connection_key, transfer_key |-> transfer_key]

NoTicket == Ticket_new("None", 0, 0)

\* Mutant: the progress report transfers the rest of the file.
FetchData_report_progress_completes(t, total, completed) ==
    Request([Command("Write") EXCEPT !.len = total - completed, !.position = completed],
            t.connection_key, t.transfer_key)

FetchData_report_progress(t, total, completed) ==
    Request([Command("ReportProgress") EXCEPT !.total = total, !.completed = completed],
            t.connection_key, t.transfer_key)

FetchData_read_at(t, buf, offset) ==
    Request([Command("Read") EXCEPT !.len = buf, !.position = offset],
            t.connection_key, t.transfer_key)

\* Mutant: the write forgets its offset.
FetchData_write_at_start(t, buf, offset) ==
    Request([Command("Write") EXCEPT !.len = buf, !.position = 0],
            t.connection_key, t.transfer_key)

FetchData_write_at(t, buf, offset) ==
    Request([Command("Write") EXCEPT !.len = buf, !.position = offset],
            t.connection_key, t.transfer_key)

ValidateData_pass(t, range) ==
    Request([Command("Validate") EXCEPT !.range = range],
            t.connection_key, t.transfer_key)

\* Mutant: the read acknowledges the range it was to read.
ValidateData_read_at_acks(t, buf, offset) ==
    Request([Command("Validate") EXCEPT !.range = <<offset, offset + buf>>],
            t.connection_key, t.transfer_key)

\* Mutant: the read asks for one byte less than the buffer holds.
ValidateData_read_at_short(t, buf, offset) ==
    Request([Command("Read") EXCEPT !.len = buf - 1, !.position = offset],
            t.connection_key, t.transfer_key)

ValidateData_read_at(t, buf, offset) ==
    Request([Command("Read") EXCEPT !.len = buf, !.position = offset],
            t.connection_key, t.transfer_key)

\* Mutant: the command announces one entry whatever the list holds.
FetchPlaceholders_pass_with_one(t, placeholders) ==
    Request([Command("CreatePlaceholders") EXCEPT
                 !.total = 1, !.placeholders = placeholders],
            t.connection_key, t.transfer_key)

FetchPlaceholders_pass_with_placeholder(t, placeholders) ==
    Request([Command("CreatePlaceholders") EXCEPT
                 !.total = Len(placeholders), !.placeholders = placeholders],
            t.connection_key, t.transfer_key)

Dehydrate_pass(t) ==
    Request([Command("Dehydrate") EXCEPT !.blob = EmptyBlob],
            t.connection_key, t.transfer_key)

\* Mutant: the blob is cut to the largest size the system takes.
Dehydrate_pass_with_blob_cut(t, blob) ==
    Request([Command("Dehydrate") EXCEPT
                 !.blob = [blob EXCEPT !.len = IF @ > BlobLimit THEN BlobLimit ELSE @]],
            t.connection_key, t.transfer_key)

\* Mutant: the blob is left out of the command.
Dehydrate_pass_with_blob_dropped(t, blob) ==
    Request([Command("Dehydrate") EXCEPT !.blob = EmptyBlob],
            t.connection_key, t.transfer_key)

Dehydrate_pass_with_blob(t, blob) ==
    Request([Command("Dehydrate") EXCEPT !.blob = blob],
            t.connection_key, t.transfer_key)

\* Mutant: the delete ticket sends a page of data instead of its approval.
Delete_pass_writes(t) ==
    Request([Command("Write") EXCEPT !.len = PageSize, !.position = 0],
            t.connection_key, t.transfer_key)

Delete_pass(t) ==
    Request(Command("Delete"), t.connection_key, t.transfer_key)

\* Mutant: the rename ticket answers with a failure status of its own.
Rename_pass_denies(t) ==
    Request([Command("Deny") EXCEPT !.status = "NotSupported"],
            t.connection_key, t.transfer_key)

\* Mutant: the rename is sent under the first transfer key of the connection.
Rename_pass_first_transfer(t) ==
    Request(Command("Rename"), t.connection_key, 1)

Rename_pass(t) ==
    Request(Command("Rename"), t.connection_key, t.transfer_key)

\* What a ticket method hands back to the handler: the command's result, as a
\* value (`.execute(..)` is the method's tail expression; report_progress uses
\* `?` and Ok(())).  Nothing unwraps it.
\* Mutant: the method unwraps the command's result.
MethodReturn_unwrap(r) == IF r.tag = "Err" THEN Panic ELSE r

\* Mutant: the method reports every failure as an I/O failure.
MethodReturn_io(r) == IF r.tag = "Err" THEN Err("IoError") ELSE r

MethodReturn(r) == r

(***************************************************************************)
(* filter/sync_filter.rs: the default methods of the terminating           *)
(* callbacks.  fetch_data has none.  Each ignores its ticket.              *)
(***************************************************************************)
validate_data == Err("NotSupported")
fetch_placeholders == Err("NotSupported")
\* Mutant: the default dehydrate approves by saying nothing.
dehydrate_silent == Ok(0)

dehydrate == Err("NotSupported")
delete == Err("NotSupported")
rename == Err("NotSupported")

DefaultMethod(kind) ==
    CASE kind = "ValidateData" -> validate_data
      [] kind = "FetchPlaceholders" -> fetch_placeholders
      [] kind = "Dehydrate" -> dehydrate
      [] kind = "Delete" -> delete
      [] kind = "Rename" -> rename

(***************************************************************************)
(* The command layer and the operating system behind it (design sections   *)
(* 3, 4.1, 5 and 8).                                                       *)
(***************************************************************************)
\* The commands the operating system accepts during a callback of each kind.
Capabilities(kind) ==
    CASE kind = "FetchData" -> {"Read", "Write", "ReportProgress"}
      [] kind = "ValidateData" -> {"Read", "Validate"}
      [] kind = "FetchPlaceholders" -> {"CreatePlaceholders"}
      [] kind = "Dehydrate" -> {"Dehydrate"}
      [] kind = "Delete" -> {"Delete"}
      [] kind = "Rename" -> {"Rename"}
      [] OTHER -> {}

\* The denial the dispatcher sends for a handler's error.
Fail(connection_key, transfer_key, error_kind) ==
    Request([Command("Deny") EXCEPT !.status = error_kind], connection_key, transfer_key)

\* A command that resolves its operation when the operating system takes it.
Resolving(cmd) ==
    \/ cmd.op \in {"Validate", "CreatePlaceholders", "Dehydrate", "Delete", "Rename", "Deny"}
    \/ cmd.op = "Write" /\ cmd.position + cmd.len = FileSize

\* A command refused before any operating system call is made.
Rejected(cmd) == cmd.op = "Dehydrate" /\ cmd.blob.len > BlobLimit

NoOperation ==
    [kind |-> "None", state |-> "free", context |-> EmptyBlob, cancelRequested |-> FALSE]

Min(a, b) == IF a < b THEN a ELSE b

\* The status the operating system answers a command with, given its side of
\* the operation the command's key pair names.
OsResult(cmd, o) ==
    IF cmd.op \notin Capabilities(o.kind) \cup {"Deny"} THEN Err("InvalidArgument")
    ELSE IF cmd.op = "Write"
            /\ \/ cmd.len % PageSize # 0 /\ cmd.position + cmd.len # FileSize
               \/ cmd.position + cmd.len > FileSize
         THEN Err("InvalidArgument")
    ELSE IF o.state = "cancelled" THEN Err("Cancelled")
    ELSE IF o.state # "pending" THEN Err("IoError")
    ELSE IF cmd.op = "Read"
         THEN IF cmd.position >= FileSize THEN Err("IoError")
              ELSE IF o.kind = "ValidateData" /\ cmd.position + cmd.len > FileSize
                   THEN Err("IoError")
              ELSE Ok(Min(cmd.len, FileSize - cmd.position))
    ELSE Ok(0)

\* The operating system's side of the operation after the command.
OsEffect(cmd, o) ==
    IF OsResult(cmd, o).tag # "Ok" \/ ~Resolving(cmd) THEN o
    ELSE IF cmd.op = "Deny"
         THEN [o EXCEPT !.state = "denied"]
    ELSE IF cmd.op = "Dehydrate"
         THEN [o EXCEPT !.state = "resolved", !.context = cmd.blob]
    ELSE [o EXCEPT !.state = "resolved"]

\* The per-entry outcomes of a CreatePlaceholders command the operating system
\* took: one per entry it was told of, in the order of the list.
PlaceholderOutcomes(cmd) ==
    [i \in 1..Min(cmd.total, Len(cmd.placeholders)) |->
        IF cmd.placeholders[i] = "creatable" THEN "Created" ELSE "Failed"]

\* What the mock boundary records of a command: its operation, who issued it,
\* the number of entries it announces, whether it is a resolving command, and
\* whether the system took it.
Entry(k, via, cmd, r) ==
    [op |-> cmd.op, status |-> cmd.status, total |-> cmd.total, by |-> k, via |-> via,
     resolving |-> Resolving(cmd), ok |-> r.tag = "Ok"]

(***************************************************************************)
(* Registration of a sync root.  A Registration is built by chained        *)
(* setters and handed to the operating system by register().  A string is  *)
(* its number of characters; an optional field is None or Some(value).     *)
(***************************************************************************)
CF_MAX_PROVIDER_VERSION_LENGTH == 255

None == [some |-> FALSE, value |-> EmptyBlob]
Some(v) == [some |-> TRUE, value |-> v]

\* A version string of n characters; the bytes of a blob.
Version(n) == Blob(n, 1)
Versions ==
    {Version(3), Version(CF_MAX_PROVIDER_VERSION_LENGTH),
     Version(CF_MAX_PROVIDER_VERSION_LENGTH + 1)}
ContextBlobs == {Blob(3, 7), Blob(BlobLimit, 7), Blob(BlobLimit + 1, 7)}

HydrationTypes == {"Partial", "Progressive", "Full", "AlwaysFull"}
PopulationTypes == {"Full", "AlwaysFull"}
ProtectionModes == {"Personal", "Unknown"}
HydrationPolicyModifiers ==
    {"ValidationRequired", "StreamingAllowed", "AutoDehydrationAllowed",
     "AllowFullRestartHydration"}

\* HydrationPolicy: a set of modifier flags, `|=` adds one.
HydrationPolicy_default == {}
HydrationPolicy_new == HydrationPolicy_default
HydrationPolicy_require_validation(p) == p \cup {"ValidationRequired"}
HydrationPolicy_allow_streaming(p) == p \cup {"StreamingAllowed"}
HydrationPolicy_allow_platform_dehydration(p) == p \cup {"AutoDehydrationAllowed"}
HydrationPolicy_allow_full_restart_hydration(p) == p \cup {"AllowFullRestartHydration"}

\* SupportedAttributes: a set of in-sync policy flags, `|=` adds one.
SupportedAttributes_default == {}
SupportedAttributes_new == SupportedAttributes_default
SupportedAttributes_file_creation_time(a) == a \cup {"FileCreationTime"}
SupportedAttributes_file_readonly(a) == a \cup {"FileReadOnlyAttribute"}
SupportedAttributes_file_hidden(a) == a \cup {"FileHiddenAttribute"}
SupportedAttributes_file_system(a) == a \cup {"FileSystemAttribute"}
SupportedAttributes_file_last_write_time(a) == a \cup {"FileLastWriteTime"}
SupportedAttributes_directory_creation_time(a) == a \cup {"DirectoryCreationTime"}
SupportedAttributes_directory_readonly(a) == a \cup {"DirectoryReadOnlyAttribute"}
SupportedAttributes_directory_hidden(a) == a \cup {"DirectoryHiddenAttribute"}
SupportedAttributes_directory_last_write_time(a) == a \cup {"DirectoryLastWriteTime"}
\* Mutant: none() leaves nothing but its own flag.
SupportedAttributes_none_alone(a) == {"PreserveInsyncForSyncEngine"}

SupportedAttributes_none(a) == a \cup {"PreserveInsyncForSyncEngine"}

\* The setters by their names.
HydrationPolicySetters ==
    {"require_validation", "allow_streaming", "allow_platform_dehydration",
     "allow_full_restart_hydration"}
HydrationPolicy_setter(name, p) ==
    CASE name = "require_validation" -> HydrationPolicy_require_validation(p)
      [] name = "allow_streaming" -> HydrationPolicy_allow_streaming(p)
      [] name = "allow_platform_dehydration" -> HydrationPolicy_allow_platform_dehydration(p)
      [] name = "allow_full_restart_hydration" ->
             HydrationPolicy_allow_full_restart_hydration(p)

SupportedAttributesSetters ==
    {"file_creation_time", "file_readonly", "file_hidden", "file_system",
     "file_last_write_time", "directory_creation_time", "directory_readonly",
     "directory_hidden", "directory_last_write_time", "none"}
SupportedAttributes_setter(name, a) ==
    CASE name = "file_creation_time" -> SupportedAttributes_file_creation_time(a)
      [] name = "file_readonly" -> SupportedAttributes_file_readonly(a)
      [] name = "file_hidden" -> SupportedAttributes_file_hidden(a)
      [] name = "file_system" -> SupportedAttributes_file_system(a)
      [] name = "file_last_write_time" -> SupportedAttributes_file_last_write_time(a)
      [] name = "directory_creation_time" -> SupportedAttributes_directory_creation_time(a)
      [] name = "directory_readonly" -> SupportedAttributes_directory_readonly(a)
      [] name = "directory_hidden" -> SupportedAttributes_directory_hidden(a)
      [] name = "directory_last_write_time" ->
             SupportedAttributes_directory_last_write_time(a)
      [] name = "none" -> SupportedAttributes_none(a)

Registration_from_sync_root ==
    [show_siblings_as_group |-> FALSE,
     allow_pinning          |-> FALSE,
     allow_hardlinks        |-> FALSE,
     version                |-> None,
     hydration_type         |-> "Progressive",
     hydration_policy       |-> HydrationPolicy_default,
     population_type        |-> "Full",
     protection_mode        |-> "Unknown",
     blob                   |-> None,
     display_name           |-> None,
     recycle_bin_uri        |-> None,
     provider_id            |-> None,
     supported_attributes   |-> SupportedAttributes_default]

\* Strings by their length and what they are filled with: a display name, the
\* provider name of the sync root, the address of a recycle bin.
DisplayNames == {Blob(4, 2)}
provider_name == Blob(8, 3)
RecycleBinUris == {Blob(5, 4)}

Registration_supported_attributes(r, supported_attributes) ==
    [r EXCEPT !.supported_attributes = supported_attributes]
Registration_display_name(r, display_name) ==
    [r EXCEPT !.display_name = Some(display_name)]
Registration_recycle_bin_uri(r, uri) ==
    [r EXCEPT !.recycle_bin_uri = Some(uri)]

Registration_hydration_type(r, hydration_type) ==
    [r EXCEPT !.hydration_type = hydration_type]
Registration_allow_pinning(r) == [r EXCEPT !.allow_pinning = TRUE]
Registration_allow_hardlinks(r) == [r EXCEPT !.allow_hardlinks = TRUE]
Registration_show_siblings_as_group(r) == [r EXCEPT !.show_siblings_as_group = TRUE]
Registration_population_type(r, population_type) ==
    [r EXCEPT !.population_type = population_type]
Registration_protection_mode(r, protection_mode) ==
    [r EXCEPT !.protection_mode = protection_mode]
Registration_hydration_policy(r, hydration_policy) ==
    [r EXCEPT !.hydration_policy = hydration_policy]

\* A setter with an assertion: `ok` is whether the assertion held, `reg` the
\* builder it returns when it did.
Registration_version(r, version) ==
    IF version.len <= CF_MAX_PROVIDER_VERSION_LENGTH
    THEN [ok |-> TRUE, reg |-> [r EXCEPT !.version = Some(version)]]
    ELSE [ok |-> FALSE, reg |-> r]

\* Mutant: the blob is stored whatever its size.
Registration_blob_unchecked(r, blob) ==
    [ok |-> TRUE, reg |-> [r EXCEPT !.blob = Some(blob)]]

Registration_blob(r, blob) ==
    IF blob.len <= BlobLimit
    THEN [ok |-> TRUE, reg |-> [r EXCEPT !.blob = Some(blob)]]
    ELSE [ok |-> FALSE, reg |-> r]

\* From<PopulationType> for StorageProviderPopulationPolicy,
\* From<HydrationType> for StorageProviderHydrationPolicy,
\* From<ProtectionMode> for StorageProviderProtectionMode.
\* Mutant: every population type is registered as Full.
PopulationType_into_full(population_type) == "Full"

PopulationType_into(population_type) ==
    CASE population_type = "Full" -> "Full"
      [] population_type = "AlwaysFull" -> "AlwaysFull"
HydrationType_into(hydration_type) ==
    CASE hydration_type = "Partial" -> "Partial"
      [] hydration_type = "Progressive" -> "Progressive"
      [] hydration_type = "Full" -> "Full"
      [] hydration_type = "AlwaysFull" -> "AlwaysFull"
ProtectionMode_into(mode) ==
    CASE mode = "Personal" -> "Personal"
      [] mode = "Unknown" -> "Unknown"

\* Registration::register: the StorageProviderSyncRootInfo it fills in and
\* registers.
Registration_register(r) ==
    [ProtectionMode          |-> ProtectionMode_into(r.protection_mode),
     ShowSiblingsAsGroup     |-> r.show_siblings_as_group,
     HydrationPolicy         |-> HydrationType_into(r.hydration_type),
     HydrationPolicyModifier |-> r.hydration_policy,
     PopulationPolicy        |-> PopulationType_into(r.population_type),
     HardlinkPolicy          |-> IF r.allow_hardlinks THEN "Allowed" ELSE "None",
     Version                 |-> r.version,
     Context                 |-> r.blob,
     DisplayNameResource     |-> IF r.display_name.some
                                 THEN r.display_name.value ELSE provider_name,
     RecycleBinUri           |-> r.recycle_bin_uri,
     ProviderId              |-> r.provider_id,
     InSyncPolicy            |-> r.supported_attributes]

\* The calls an optional field of the Registration adds to register().
IfSome(field, calls) == IF field.some THEN calls ELSE <<>>

\* Mutant: the sync root is registered before the optional fields are set.
Registration_register_calls_early(r) ==
    <<"StorageProviderSyncRootInfo_new", "SetProtectionMode", "SetShowSiblingsAsGroup",
      "SetHydrationPolicy", "SetHydrationPolicyModifier", "SetPopulationPolicy",
      "SetInSyncPolicy", "SetDisplayNameResource", "SetIconResource",
      "GetFolderFromPathAsync", "get", "SetPath", "SetHardlinkPolicy", "SetId",
      "Register">>
    \o IfSome(r.provider_id, <<"SetProviderId">>)
    \o IfSome(r.version, <<"SetVersion">>)
    \o IfSome(r.recycle_bin_uri, <<"CreateUri", "SetRecycleBinUri">>)
    \o IfSome(r.blob, <<"DataWriter_new", "WriteBytes", "DetachBuffer", "SetContext">>)

\* The calls register() makes, each followed by `?`, in the order it makes
\* them; the last one is register()'s tail expression.
Registration_register_calls(r) ==
    <<"StorageProviderSyncRootInfo_new", "SetProtectionMode", "SetShowSiblingsAsGroup",
      "SetHydrationPolicy", "SetHydrationPolicyModifier", "SetPopulationPolicy",
      "SetInSyncPolicy", "SetDisplayNameResource", "SetIconResource",
      "GetFolderFromPathAsync", "get", "SetPath", "SetHardlinkPolicy", "SetId">>
    \o IfSome(r.provider_id, <<"SetProviderId">>)
    \o IfSome(r.version, <<"SetVersion">>)
    \o IfSome(r.recycle_bin_uri, <<"CreateUri", "SetRecycleBinUri">>)
    \o IfSome(r.blob, <<"DataWriter_new", "WriteBytes", "DetachBuffer", "SetContext">>)
    \o <<"Register">>

\* windows::core::Error: the status a call failed with.
core_Error(code) == [tag |-> "Err", val |-> code, err |-> "core::Error"]

\* No sync root is registered.
NoSyncRootInfo == Registration_register(Registration_from_sync_root)

\* The callbacks the operating system delivers under a sync root: it asks
\* for validation only where validation is required, and for the entries of
\* a directory only where the provider has not promised a full population.
Delivers(syncRootInfo, kind) ==
    /\ kind = "ValidateData" =>
           "ValidationRequired" \in syncRootInfo.HydrationPolicyModifier
    /\ kind = "FetchPlaceholders" => syncRootInfo.PopulationPolicy = "Full"

(***************************************************************************)
(* The notifying methods of SyncFilter.  They take a request and           *)
(* information, no ticket, and return nothing; each default body is empty. *)
(***************************************************************************)
NotifyingKinds ==
    {"cancel_fetch_data", "cancel_fetch_placeholders", "opened", "closed",
     "dehydrated", "deleted", "renamed", "state_changed"}

Unit == [tag |-> "Unit", val |-> 0, err |-> "None"]

cancel_fetch_data == Unit
cancel_fetch_placeholders == Unit
opened == Unit
closed == Unit
dehydrated == Unit
deleted_refuses == Err("NotSupported")
deleted == Unit
renamed == Unit
state_changed == Unit

NotifyingMethod(kind) ==
    CASE kind = "cancel_fetch_data" -> cancel_fetch_data
      [] kind = "cancel_fetch_placeholders" -> cancel_fetch_placeholders
      [] kind = "opened" -> opened
      [] kind = "closed" -> closed
      [] kind = "dehydrated" -> dehydrated
      [] kind = "deleted" -> deleted
      [] kind = "renamed" -> renamed
      [] kind = "state_changed" -> state_changed

\* No notifying callback was delivered yet; otherwise the latest one
\* "returned", or the provider's code "failed" in it.
NoNote == "none"

VARIABLES
    pc,       \* per key pair: the callback's position
    impl,     \* per key pair: the provider's method is the "default" or "custom"
    ticket,   \* per key pair: the ticket handed to the handler
    os,       \* per key pair: the operating system's side of the operation
    cmds,     \* per key pair: the commands the operating system received
    call,     \* the latest ticket call: whose handler made it, and what it returned
    result,   \* per key pair: what the provider's method returned to the proxy
    nCalls,   \* ticket calls made so far
    budget,   \* ticket calls the handlers of this run make at most
    note,     \* how the latest notifying callback ended
    reg,      \* the Registration the provider builds
    policy,   \* the HydrationPolicy the provider builds
    attributes, \* the SupportedAttributes the provider builds
    builder,  \* "building", "registered", or "panicked" on a failed assertion
    info,     \* the sync root information the operating system was registered with
    status,   \* an operating system status a command ended with
    outcome,  \* what the ticket method handed back for that status
    oscalls   \* the calls register() made in this run, in their order

protocol == <<pc, impl, ticket, os, cmds, call, result, nCalls>>
env == <<budget, note, reg, policy, attributes, builder, info, status, outcome, oscalls>>
vars == <<protocol, env>>

\* pending tells whether the operation was pending when the call was made.
NoCall ==
    [by |-> <<0, 0>>, method |-> "none", args |-> NoArgs, ret |-> NoResult, out |-> <<>>,
     pending |-> FALSE]

TypeOK ==
    /\ pc \in [KeyPairs -> {"idle", "running", "returned", "crashed"}]
    /\ impl \in [KeyPairs -> {"none", "default", "custom"}]
    /\ nCalls \in 0..MaxCalls

InitProtocol ==
    /\ pc = [k \in KeyPairs |-> "idle"]
    /\ impl = [k \in KeyPairs |-> "none"]
    /\ ticket = [k \in KeyPairs |-> NoTicket]
    /\ os = [k \in KeyPairs |-> NoOperation]
    /\ cmds = [k \in KeyPairs |-> <<>>]
    /\ call = NoCall
    /\ result = [k \in KeyPairs |-> NoResult]
    /\ nCalls = 0

\* The registration every terminating callback is delivered under.
FullRegistration ==
    Registration_hydration_policy(
        Registration_from_sync_root,
        HydrationPolicy_require_validation(HydrationPolicy_new))

\* A sync root registered with r and connected; its handlers make at most b
\* ticket calls.
Connected(r, b) ==
    /\ InitProtocol
    /\ budget = b
    /\ note = NoNote
    /\ reg = r
    /\ policy = r.hydration_policy
    /\ attributes = r.supported_attributes
    /\ builder = "registered"
    /\ info = Registration_register(r)
    /\ status = 0
    /\ outcome = NoResult
    /\ oscalls = <<>>

Init == Connected(FullRegistration, MaxCalls)

(***************************************************************************)
(* The operating system starts an operation of some terminating kind under *)
(* a fresh key pair; the callback proxy of that kind builds the ticket     *)
(* from the pair and calls the provider's method.  A provider overrides a  *)
(* method or leaves its default, the same way for every callback.          *)
(***************************************************************************)
Deliver(k, kind, im) ==
    /\ pc[k] = "idle"
    /\ builder = "registered"
    /\ Delivers(info, kind)
    /\ \A j \in KeyPairs : j[2] < k[2] => pc[j] # "idle"
    /\ kind = "FetchData" => im = "custom"
    /\ \A j \in KeyPairs : ticket[j].kind = kind => impl[j] = im
    /\ pc' = [pc EXCEPT ![k] = "running"]
    /\ impl' = [impl EXCEPT ![k] = im]
    /\ ticket' = [ticket EXCEPT ![k] = Ticket_new(kind, k[1], k[2])]
    /\ os' = [os EXCEPT ![k] = [NoOperation EXCEPT !.kind = kind, !.state = "pending"]]
    /\ UNCHANGED <<cmds, call, result, nCalls, env>>

(***************************************************************************)
(* Command::execute: one synchronous request to the operating system under *)
(* the request's key pair, unless the command is refused beforehand.  The  *)
(* handler of k made the call `method(args)`.                              *)
(***************************************************************************)
Execute(k, method, args, req) ==
    LET key == KeyOf(req)
        o == os[key]
        r == IF Rejected(req.cmd) THEN Err("InvalidArgument") ELSE OsResult(req.cmd, o)
        ret == MethodReturn(r)
    IN  /\ key \in KeyPairs
        /\ IF Rejected(req.cmd)
           THEN UNCHANGED <<os, cmds>>
           ELSE /\ os' = [os EXCEPT ![key] = OsEffect(req.cmd, o)]
                /\ cmds' = [cmds EXCEPT ![key] = Append(@, Entry(k, "ticket", req.cmd, r))]
        /\ call' = [by |-> k, method |-> method, args |-> args, ret |-> ret,
                    out |-> IF req.cmd.op = "CreatePlaceholders" /\ r.tag = "Ok"
                            THEN PlaceholderOutcomes(req.cmd) ELSE <<>>,
                    pending |-> os[k].state = "pending"]
        /\ pc' = [pc EXCEPT ![k] = IF ret = Panic THEN "crashed" ELSE @]
        /\ nCalls' = nCalls + 1
        /\ UNCHANGED <<impl, ticket, result, env>>

\* The provider's own method is running and holds the ticket of kind `kind`.
Holds(k, kind) ==
    /\ pc[k] = "running"
    /\ impl[k] = "custom"
    /\ ticket[k].kind = kind
    /\ nCalls < budget

ReportProgress(k, total, completed) ==
    /\ Holds(k, "FetchData")
    /\ Execute(k, "report_progress", [NoArgs EXCEPT !.total = total, !.completed = completed],
               FetchData_report_progress(ticket[k], total, completed))

FetchDataReadAt(k, buf, offset) ==
    /\ Holds(k, "FetchData")
    /\ Execute(k, "read_at", [NoArgs EXCEPT !.len = buf, !.offset = offset],
               FetchData_read_at(ticket[k], buf, offset))

FetchDataWriteAt(k, buf, offset) ==
    /\ Holds(k, "FetchData")
    /\ Execute(k, "write_at", [NoArgs EXCEPT !.len = buf, !.offset = offset],
               FetchData_write_at(ticket[k], buf, offset))

ValidateDataPass(k, range) ==
    /\ Holds(k, "ValidateData")
    /\ Execute(k, "pass", [NoArgs EXCEPT !.range = range],
               ValidateData_pass(ticket[k], range))

ValidateDataReadAt(k, buf, offset) ==
    /\ Holds(k, "ValidateData")
    /\ Execute(k, "read_at", [NoArgs EXCEPT !.len = buf, !.offset = offset],
               ValidateData_read_at(ticket[k], buf, offset))

FetchPlaceholdersPass(k, placeholders) ==
    /\ Holds(k, "FetchPlaceholders")
    /\ Execute(k, "pass_with_placeholder", [NoArgs EXCEPT !.placeholders = placeholders],
               FetchPlaceholders_pass_with_placeholder(ticket[k], placeholders))

DehydratePass(k) ==
    /\ Holds(k, "Dehydrate")
    /\ Execute(k, "pass", NoArgs, Dehydrate_pass(ticket[k]))

DehydratePassWithBlob(k, blob) ==
    /\ Holds(k, "Dehydrate")
    /\ Execute(k, "pass_with_blob", [NoArgs EXCEPT !.blob = blob],
               Dehydrate_pass_with_blob(ticket[k], blob))

DeletePass(k) ==
    /\ Holds(k, "Delete")
    /\ Execute(k, "pass", NoArgs, Delete_pass(ticket[k]))

RenamePass(k) ==
    /\ Holds(k, "Rename")
    /\ Execute(k, "pass", NoArgs, Rename_pass(ticket[k]))

(***************************************************************************)
(* The callback proxy after the provider's method returned r: an error     *)
(* becomes a denial command for the callback's key pair; the proxy does    *)
(* not look at what the denial returns.                                    *)
(***************************************************************************)
Dispatch(k, r) ==
    /\ pc' = [pc EXCEPT ![k] = "returned"]
    /\ result' = [result EXCEPT ![k] = r]
    /\ IF r.tag = "Err"
       THEN LET req == Fail(k[1], k[2], r.err)
                o == os[k]
            IN  /\ os' = [os EXCEPT ![k] = OsEffect(req.cmd, o)]
                /\ cmds' = [cmds EXCEPT ![k] =
                                Append(@, Entry(k, "dispatcher", req.cmd, OsResult(req.cmd, o)))]
       ELSE UNCHANGED <<os, cmds>>
    /\ UNCHANGED <<impl, ticket, call, nCalls, env>>

\* A callback the provider left at its default.
DefaultReturn(k) ==
    /\ pc[k] = "running"
    /\ impl[k] = "default"
    /\ Dispatch(k, DefaultMethod(ticket[k].kind))

\* The provider's own method returns Ok(()) or an error of its choosing.
HandlerReturn(k, r) ==
    /\ pc[k] = "running"
    /\ impl[k] = "custom"
    /\ Dispatch(k, r)

(***************************************************************************)
(* The operating system cancels a hydration that is still pending and      *)
(* delivers cancel_fetch_data, whose default does nothing.  The key pair   *)
(* is then either unusable or still awaits its resolution.                 *)
(***************************************************************************)
CancelFetchData(k, invalidates) ==
    /\ os[k].kind = "FetchData"
    /\ os[k].state = "pending"
    /\ ~os[k].cancelRequested
    /\ os' = [os EXCEPT ![k] =
                 IF invalidates
                 THEN [@ EXCEPT !.cancelRequested = TRUE, !.state = "cancelled"]
                 ELSE [@ EXCEPT !.cancelRequested = TRUE]]
    /\ UNCHANGED <<pc, impl, ticket, cmds, call, result, nCalls, env>>

Ranges == {<<0, FileSize>>}
HandlerResults == {Ok(0), Err("IoError")}

Next ==
    \/ \E k \in KeyPairs, kind \in TerminatingKinds, im \in {"default", "custom"} :
           Deliver(k, kind, im)
    \/ \E k \in KeyPairs : ReportProgress(k, FileSize, PageSize)
    \/ \E k \in KeyPairs, a \in ReadArgs : FetchDataReadAt(k, a[1], a[2])
    \/ \E k \in KeyPairs, a \in WriteArgs : FetchDataWriteAt(k, a[1], a[2])
    \/ \E k \in KeyPairs, range \in Ranges : ValidateDataPass(k, range)
    \/ \E k \in KeyPairs, a \in ReadArgs : ValidateDataReadAt(k, a[1], a[2])
    \/ \E k \in KeyPairs, placeholders \in PlaceholderLists :
           FetchPlaceholdersPass(k, placeholders)
    \/ \E k \in KeyPairs : DehydratePass(k)
    \/ \E k \in KeyPairs, blob \in Blobs : DehydratePassWithBlob(k, blob)
    \/ \E k \in KeyPairs : DeletePass(k)
    \/ \E k \in KeyPairs : RenamePass(k)
    \/ \E k \in KeyPairs : DefaultReturn(k)
    \/ \E k \in KeyPairs, r \in HandlerResults : HandlerReturn(k, r)
    \/ \E k \in KeyPairs, invalidates \in BOOLEAN : CancelFetchData(k, invalidates)

Spec == Init /\ [][Next]_vars

\* With weak fairness of the proxy's own step after a default method: the
\* default method returns at once and the proxy runs on the thread the
\* operating system called it on.
FairSpec == Spec /\ \A k \in KeyPairs : WF_vars(DefaultReturn(k))

(***************************************************************************)
(* Notifying callbacks.  The operating system tells the provider of        *)
(* something that happened to the operation or the file of key pair k; the *)
(* provider's method runs, and its own code may fail in it.  The proxy has *)
(* no ticket to hand over and sends what the method's return value asks    *)
(* for, which for a method returning nothing is nothing.                   *)
(***************************************************************************)
Notifies(k, kind) ==
    CASE kind = "cancel_fetch_data" ->
             os[k].kind = "FetchData" /\ os[k].cancelRequested
      [] kind = "cancel_fetch_placeholders" ->
             os[k].kind = "FetchPlaceholders" /\ os[k].state = "pending"
      [] kind = "dehydrated" -> os[k].kind = "Dehydrate" /\ os[k].state = "resolved"
      [] kind = "deleted" -> os[k].kind = "Delete" /\ os[k].state = "resolved"
      [] kind = "renamed" -> os[k].kind = "Rename" /\ os[k].state = "resolved"
      [] OTHER -> TRUE

Notify(k, kind, failed) ==
    LET r == NotifyingMethod(kind)
        req == Fail(k[1], k[2], r.err)
        o == os[k]
    IN  /\ builder = "registered"
        /\ Notifies(k, kind)
        /\ note' = IF failed THEN "failed" ELSE "returned"
        /\ IF r.tag = "Err"
           THEN /\ os' = [os EXCEPT ![k] = OsEffect(req.cmd, o)]
                /\ cmds' = [cmds EXCEPT ![k] =
                                Append(@, Entry(k, "dispatcher", req.cmd, OsResult(req.cmd, o)))]
           ELSE UNCHANGED <<os, cmds>>
        /\ UNCHANGED <<pc, impl, ticket, call, result, nCalls>>
        /\ UNCHANGED <<budget, reg, policy, attributes, builder, info, status, outcome, oscalls>>

(***************************************************************************)
(* Callbacks under any of the registrations that differ in what the        *)
(* operating system delivers: with or without required validation, and     *)
(* with either population type.                                            *)
(***************************************************************************)
PolicyCalls == 1

PolicyRegistrations ==
    {Registration_population_type(Registration_hydration_policy(Registration_from_sync_root, p), t) :
        p \in {HydrationPolicy_new, HydrationPolicy_require_validation(HydrationPolicy_new)},
        t \in PopulationTypes}

PolicyInit == \E r \in PolicyRegistrations : Connected(r, PolicyCalls)

PolicySpec == PolicyInit /\ [][Next]_vars

(***************************************************************************)
(* Key pairs in use again.  The operating system forgets an operation that *)
(* ended and whose callback returned, and may then start another under the *)
(* same key pair.                                                          *)
(***************************************************************************)
Release(k) ==
    /\ pc[k] = "returned"
    /\ os[k].state \in {"resolved", "denied", "cancelled"}
    /\ pc' = [pc EXCEPT ![k] = "idle"]
    /\ impl' = [impl EXCEPT ![k] = "none"]
    /\ ticket' = [ticket EXCEPT ![k] = NoTicket]
    /\ os' = [os EXCEPT ![k] = NoOperation]
    /\ cmds' = [cmds EXCEPT ![k] = <<>>]
    /\ result' = [result EXCEPT ![k] = NoResult]
    /\ UNCHANGED <<call, nCalls, env>>

KeyCalls == 1

KeyInit == Connected(FullRegistration, KeyCalls)

KeyNext ==
    \/ Next
    \/ \E k \in KeyPairs : Release(k)

KeySpec == KeyInit /\ [][KeyNext]_vars

(***************************************************************************)
(* The builder.  The provider starts from Registration::from_sync_root and *)
(* HydrationPolicy::new, calls setters in any order, and registers.  A     *)
(* failed assertion ends the program.                                      *)
(***************************************************************************)
MaxSetters == 3

Building ==
    /\ builder = "building"
    /\ nCalls < budget
    /\ nCalls' = nCalls + 1
    /\ UNCHANGED <<pc, impl, ticket, os, cmds, call, result>>
    /\ UNCHANGED <<budget, note, info, status, outcome, oscalls>>

\* A setter of the Registration that cannot fail.
Set(r) ==
    /\ Building
    /\ reg' = r
    /\ UNCHANGED <<policy, attributes, builder>>

\* A setter of the Registration with an assertion.
SetAsserting(x) ==
    /\ Building
    /\ reg' = x.reg
    /\ builder' = IF x.ok THEN builder ELSE "panicked"
    /\ UNCHANGED <<policy, attributes>>

\* A setter of the HydrationPolicy.
SetPolicy(p) ==
    /\ Building
    /\ policy' = p
    /\ UNCHANGED <<reg, attributes, builder>>

SetHydrationType(hydration_type) == Set(Registration_hydration_type(reg, hydration_type))
AllowPinning == Set(Registration_allow_pinning(reg))
AllowHardlinks == Set(Registration_allow_hardlinks(reg))
ShowSiblingsAsGroup == Set(Registration_show_siblings_as_group(reg))
SetPopulationType(population_type) == Set(Registration_population_type(reg, population_type))
SetProtectionMode(protection_mode) == Set(Registration_protection_mode(reg, protection_mode))
SetHydrationPolicy == Set(Registration_hydration_policy(reg, policy))
SetVersion(version) == SetAsserting(Registration_version(reg, version))
SetBlob(blob) == SetAsserting(Registration_blob(reg, blob))

RequireValidation == SetPolicy(HydrationPolicy_require_validation(policy))
AllowStreaming == SetPolicy(HydrationPolicy_allow_streaming(policy))
AllowPlatformDehydration == SetPolicy(HydrationPolicy_allow_platform_dehydration(policy))
AllowFullRestartHydration == SetPolicy(HydrationPolicy_allow_full_restart_hydration(policy))

\* register(): its calls up to the first that fails; failed is the number of
\* that call, which is also the status it fails with, or 0 when none fails.
\* The sync root is registered when the last call succeeded.
Register(failed) ==
    LET calls == Registration_register_calls(reg)
    IN  /\ builder = "building"
        /\ oscalls' = IF failed = 0 THEN calls ELSE SubSeq(calls, 1, failed)
        /\ status' = failed
        /\ outcome' = IF failed = 0 THEN Ok(0) ELSE core_Error(failed)
        /\ builder' = IF failed = 0 THEN "registered" ELSE "failed"
        /\ info' = IF failed = 0 THEN Registration_register(reg) ELSE info
        /\ UNCHANGED <<protocol, budget, note, reg, policy, attributes>>

SetSupportedAttributes == Set(Registration_supported_attributes(reg, attributes))
\* A setter of the SupportedAttributes.
SupportedAttribute(name) ==
    /\ Building
    /\ attributes' = SupportedAttributes_setter(name, attributes)
    /\ UNCHANGED <<reg, policy, builder>>
SetDisplayName(display_name) == Set(Registration_display_name(reg, display_name))
SetRecycleBinUri(uri) == Set(Registration_recycle_bin_uri(reg, uri))

RegInit ==
    /\ InitProtocol
    /\ budget = MaxSetters
    /\ note = NoNote
    /\ reg = Registration_from_sync_root
    /\ policy = HydrationPolicy_new
    /\ attributes = SupportedAttributes_new
    /\ builder = "building"
    /\ info = NoSyncRootInfo
    /\ status = 0
    /\ outcome = NoResult
    /\ oscalls = <<>>

RegNext ==
    \/ \E hydration_type \in HydrationTypes : SetHydrationType(hydration_type)
    \/ AllowPinning
    \/ AllowHardlinks
    \/ ShowSiblingsAsGroup
    \/ \E population_type \in PopulationTypes : SetPopulationType(population_type)
    \/ \E protection_mode \in ProtectionModes : SetProtectionMode(protection_mode)
    \/ SetHydrationPolicy
    \/ \E version \in Versions : SetVersion(version)
    \/ \E blob \in ContextBlobs : SetBlob(blob)
    \/ RequireValidation
    \/ AllowStreaming
    \/ AllowPlatformDehydration
    \/ AllowFullRestartHydration
    \/ \E display_name \in DisplayNames : SetDisplayName(display_name)
    \/ \E uri \in RecycleBinUris : SetRecycleBinUri(uri)
    \/ \E failed \in 0..Len(Registration_register_calls(reg)) : Register(failed)

RegSpec == RegInit /\ [][RegNext]_vars

(***************************************************************************)
(* The flag setters alone: of HydrationPolicy and of SupportedAttributes,   *)
(* in any order, and the two setters that store what was built.            *)
(***************************************************************************)
FlagNext ==
    \/ RequireValidation
    \/ AllowStreaming
    \/ AllowPlatformDehydration
    \/ AllowFullRestartHydration
    \/ \E name \in SupportedAttributesSetters : SupportedAttribute(name)
    \/ SetHydrationPolicy
    \/ SetSupportedAttributes

FlagSpec == RegInit /\ [][FlagNext]_vars

(***************************************************************************)
(* Reads.  A hydration may also read past the end of the file.             *)
(***************************************************************************)
ReadCalls == 2

ReadInit == Connected(FullRegistration, ReadCalls)

ReadNext ==
    \/ Next
    \/ \E k \in KeyPairs : FetchDataReadAt(k, PastEnd[1], PastEnd[2])

ReadSpec == ReadInit /\ [][ReadNext]_vars

(***************************************************************************)
(* Statuses.  A command ends with a status of the operating system: 0 for  *)
(* success, the status of one of the error kinds, or any other.  The       *)
(* n-th error kind of KnownStatuses has status n.                          *)
(***************************************************************************)
MaxStatus == 127
Statuses == 0..MaxStatus

KnownStatuses == <<"NotSupported", "InvalidArgument", "IoError", "Cancelled">>

Unknown(code) == [tag |-> "Err", val |-> code, err |-> "Unknown"]

\* The status a denial of the given kind is sent with.
StatusOf(error_kind) == CHOOSE n \in DOMAIN KnownStatuses : KnownStatuses[n] = error_kind

\* What a command makes of the status it ended with.
Interpret(code) ==
    IF code = 0 THEN Ok(0)
    ELSE IF code \in DOMAIN KnownStatuses THEN Err(KnownStatuses[code])
    ELSE Unknown(code)

\* The operating system answers a command with a status.
OsAnswers(code) ==
    /\ outcome # NoResult
    /\ status' = code
    /\ outcome' = NoResult
    /\ UNCHANGED <<protocol, budget, note, reg, policy, attributes, builder, info, oscalls>>

\* The provider declined an operation and the denial came back with the
\* status it was sent with.
Declined(error_kind) ==
    /\ outcome # NoResult
    /\ status' = StatusOf(error_kind)
    /\ outcome' = NoResult
    /\ UNCHANGED <<protocol, budget, note, reg, policy, attributes, builder, info, oscalls>>

\* The ticket method returns what the command made of the status.
MethodReturns ==
    /\ outcome = NoResult
    /\ outcome' = MethodReturn(Interpret(status))
    /\ UNCHANGED <<protocol, budget, note, reg, policy, attributes, builder, info, status, oscalls>>

StatusNext ==
    \/ \E code \in Statuses : OsAnswers(code)
    \/ \E error_kind \in CloudErrorKind : Declined(error_kind)
    \/ MethodReturns

StatusSpec == Init /\ [][StatusNext]_vars

\* Ticket calls the handlers make in a run with notifying callbacks.
NotifyCalls == 1

NotifyInit == Connected(FullRegistration, NotifyCalls)

NotifyNext ==
    \/ Next
    \/ \E k \in KeyPairs, kind \in NotifyingKinds, failed \in BOOLEAN :
           Notify(k, kind, failed)

NotifySpec == NotifyInit /\ [][NotifyNext]_vars

(***************************************************************************)
(* Properties.                                                             *)
(***************************************************************************)
Indices(k) == DOMAIN cmds[k]
ResolvingCommands(k) == {i \in Indices(k) : cmds[k][i].resolving}
Denials(k) == {i \in Indices(k) : cmds[k][i].op = "Deny"}

\* C1: for every terminating kind and key pair, at most one resolving command
\* reaches the operating system, whatever the handler calls on its ticket and
\* whatever it returns.
C1_AtMostOneResolvingCommand ==
    \A k \in KeyPairs : Cardinality(ResolvingCommands(k)) <= 1

DefaultDone(k) == impl[k] = "default" /\ pc[k] = "returned"

C2_DefaultDenied ==
    \A k \in KeyPairs :
        /\ impl[k] = "default" /\ pc[k] = "running" => cmds[k] = <<>> /\ call.by # k
        /\ DefaultDone(k) =>
              /\ result[k] = Err("NotSupported")
              /\ call.by # k
              /\ Len(cmds[k]) = 1
              /\ cmds[k][1].op = "Deny"
              /\ cmds[k][1].status = "NotSupported"
              /\ cmds[k][1].via = "dispatcher"
              /\ os[k].state = "denied"

\* C2: a terminating callback left at its default returns NotSupported without
\* a command through its ticket, the dispatcher sends exactly one NotSupported
\* denial for the key pair, and the operation leaves the pending state.
C2_DefaultNotSupported ==
    /\ []C2_DefaultDenied
    /\ \A k \in KeyPairs :
          (impl[k] = "default" /\ pc[k] = "running") ~> (os[k].state = "denied")

C2_Witness ==
    \E k \in KeyPairs : DefaultDone(k) /\ ticket[k].kind = "Dehydrate"

\* C3: when a terminating handler returns an error the dispatcher sends one
\* denial with that error for the handler's key pair; a ticket call that
\* fails only returns its error to the handler, and no denial is sent for it.
C3_DenialOnlyForReturnedError ==
    \A k \in KeyPairs :
        /\ result[k].tag = "Err" =>
              /\ Cardinality(Denials(k)) = 1
              /\ \A i \in Denials(k) :
                    cmds[k][i].status = result[k].err /\ cmds[k][i].via = "dispatcher"
        /\ result[k].tag # "Err" => Denials(k) = {}

C3_Witness ==
    /\ \E k \in KeyPairs :
          call.by = k /\ call.ret.tag = "Err" /\ pc[k] = "running" /\ Denials(k) = {}
    /\ \E k \in KeyPairs :
          result[k] = Err("IoError") /\ Cardinality(Denials(k)) = 1

\* C4: every command a ticket sent for a key pair is one of the commands of
\* the pair's operation kind; no Write is sent during a Delete callback.
C4_CommandsWithinCapabilities ==
    \A k \in KeyPairs :
        \A i \in Indices(k) :
            /\ cmds[k][i].via = "ticket" => cmds[k][i].op \in Capabilities(os[k].kind)
            /\ os[k].kind = "Delete" => cmds[k][i].op # "Write"

C4_Witness ==
    /\ \E k \in KeyPairs :
          os[k].kind = "Delete" /\ \E i \in Indices(k) : cmds[k][i].op = "Delete"
    /\ \E k \in KeyPairs :
          os[k].kind = "FetchData" /\ \E i \in Indices(k) : cmds[k][i].op = "Write"

\* The step is a ticket call of the handler of k.
Called(k) == nCalls' # nCalls /\ call'.by = k

\* C5: write_at fails with InvalidArgument when the buffer's length is no
\* multiple of 4096 and the write does not end on the end of the file; a
\* write of any length that ends on the end of the file of a pending
\* hydration succeeds.
C5_WriteAlignment ==
    \A k \in KeyPairs :
        call.by = k /\ call.method = "write_at" =>
            LET buf == call.args.len
                offset == call.args.offset
            IN  /\ buf % PageSize # 0 /\ offset + buf # FileSize
                      => call.ret = Err("InvalidArgument")
                /\ offset + buf = FileSize /\ call.pending => call.ret.tag = "Ok"

\* A short write inside the file was refused, and the same handler's short
\* write that ends on the end of the file then succeeded.
C5_Witness ==
    \E k \in KeyPairs :
        /\ call.by = k /\ call.method = "write_at"
        /\ call.args.len % PageSize # 0
        /\ call.args.offset + call.args.len = FileSize
        /\ call.ret.tag = "Ok"
        /\ Len(cmds[k]) = 2
        /\ cmds[k][1].op = "Write" /\ ~cmds[k][1].ok

Oversize(k) ==
    call.by = k /\ call.method = "pass_with_blob" /\ call.args.blob.len > BlobLimit

\* C6: pass_with_blob with a blob of more than 65536 bytes is refused before
\* any command is sent: the call returns an error, and neither the operating
\* system's state nor the commands it received change.
C6_OversizeBlobRejected ==
    [][\A k \in KeyPairs :
           Called(k) /\ Oversize(k)' =>
               /\ call'.ret.tag = "Err"
               /\ os' = os
               /\ cmds' = cmds]_vars

C6_Witness ==
    \E k \in KeyPairs : Oversize(k) /\ os[k].state = "pending" /\ cmds[k] = <<>>

\* C7: after a successful pass_with_blob(b), with b of at most 65536 bytes,
\* the persisted context is b; pass() sends the command pass_with_blob sends
\* for the empty blob.
C7_BlobRoundTrip ==
    \A k \in KeyPairs :
        /\ call.by = k /\ call.method = "pass_with_blob" /\ call.ret.tag = "Ok"
              => /\ call.args.blob.len <= BlobLimit
                 /\ os[k].context = call.args.blob
        /\ ticket[k].kind = "Dehydrate" /\ call.by = k /\ call.method = "pass"
              /\ call.ret.tag = "Ok" => os[k].context = EmptyBlob
        /\ ticket[k].kind = "Dehydrate"
              => Dehydrate_pass(ticket[k]) = Dehydrate_pass_with_blob(ticket[k], EmptyBlob)

C7_Witness ==
    \E k \in KeyPairs :
        /\ call.by = k /\ call.method = "pass_with_blob"
        /\ call.ret.tag = "Ok"
        /\ call.args.blob = Blob(BlobLimit, 7)
        /\ os[k].context = Blob(BlobLimit, 7)

ExpectedOutcomes(placeholders) ==
    [i \in 1..Len(placeholders) |->
        IF placeholders[i] = "creatable" THEN "Created" ELSE "Failed"]

C9_Own ==
    \A k \in KeyPairs :
        /\ \A i \in Indices(k) : cmds[k][i].by = k
        /\ os[k].state = "resolved" =>
              \E i \in Indices(k) :
                  cmds[k][i].resolving /\ cmds[k][i].ok /\ cmds[k][i].by = k

C9_Independent ==
    /\ []C9_Own
    /\ [][\A k \in KeyPairs :
              Called(k) \/ pc'[k] # pc[k] =>
                  \A j \in KeyPairs \ {k} : os'[j] = os[j] /\ cmds'[j] = cmds[j]]_vars

C9_Witness ==
    /\ \A k \in KeyPairs : os[k].state = "resolved" /\ pc[k] = "returned"
    /\ \E j, k \in KeyPairs : ticket[j].kind = "FetchData" /\ ticket[k].kind = "Dehydrate"

\* C10: with cancel_fetch_data delivered while fetch_data still answers, no
\* handler crashes; a ticket call made after the cancellation returns Ok or
\* an error value; once the key pair is cancelled a later call fails and
\* leaves it cancelled, and while it still awaits its resolution a later final
\* write that succeeds resolves it.
C10_NoCrash ==
    \A k \in KeyPairs :
        /\ pc[k] # "crashed"
        /\ call.ret.tag \in {"None", "Ok", "Err"}

C10_CancelRace ==
    /\ []C10_NoCrash
    /\ [][\A k \in KeyPairs :
              Called(k) /\ os[k].cancelRequested =>
                  /\ call'.ret.tag \in {"Ok", "Err"}
                  /\ os[k].state = "cancelled" =>
                        call'.ret.tag = "Err" /\ os'[k] = os[k]
                  /\ os[k].state = "pending" /\ call'.ret.tag = "Ok"
                        /\ call'.method = "write_at"
                        /\ call'.args.offset + call'.args.len = FileSize
                        => os'[k].state = "resolved"]_vars

C10_Witness ==
    \E k \in KeyPairs :
        /\ os[k].state = "cancelled"
        /\ call.by = k /\ call.method = "write_at"
        /\ call.ret = Err("Cancelled")
\* C11: a notifying callback is given no ticket and returns nothing: its
\* delivery sends no command, leaves every operation as it was, records no
\* result and ends no handler, also when the provider's code fails in it; and
\* the cancellation of a hydration sends no command for it.
C11_NotifyingIsInert ==
    [][/\ note' # note =>
              /\ os' = os /\ cmds' = cmds /\ result' = result
              /\ pc' = pc /\ ticket' = ticket /\ call' = call
       /\ \A k \in KeyPairs :
              os'[k].cancelRequested # os[k].cancelRequested =>
                  /\ cmds' = cmds /\ result' = result /\ pc' = pc
                  /\ \A j \in KeyPairs \ {k} : os'[j] = os[j]]_vars

\* The provider's code failed in `deleted` after the deletion was resolved,
\* while another operation is pending with its handler running.
C11_Witness ==
    /\ note = "failed"
    /\ \E k, j \in KeyPairs :
           /\ os[k].kind = "Delete" /\ os[k].state = "resolved"
           /\ Len(cmds[k]) = 1
           /\ os[j].state = "pending" /\ pc[j] = "running"


\* C12: report_progress is non-terminating: a call of it, before or after
\* the hydration was resolved, leaves every operation in the state it was in,
\* returns a value to the handler and leaves the handler running.
C12_ProgressNonTerminating ==
    [][\A k \in KeyPairs :
           Called(k) /\ call'.method = "report_progress" =>
               /\ os' = os
               /\ call'.ret.tag \in {"Ok", "Err"}
               /\ pc'[k] = "running"
               /\ result' = result]_vars

\* report_progress was called after the final write had resolved the hydration.
C12_Witness ==
    /\ call.method = "report_progress"
    /\ ~call.pending
    /\ call.ret.tag = "Err"
    /\ call.by \in KeyPairs
    /\ os[call.by].state = "resolved" /\ pc[call.by] = "running"
    /\ Len(cmds[call.by]) = 2 /\ cmds[call.by][1].op = "Write"

\* The range of a read is not one the file has: it starts at or past the end
\* of the file, or, for a validation, runs past it.
InvalidRange(kind, len, offset) ==
    \/ offset >= FileSize
    \/ kind = "ValidateData" /\ offset + len > FileSize

\* C13: a read_at that succeeds on a ValidateData ticket returns the length of
\* the buffer; one that succeeds on a FetchData ticket returns the length of
\* the buffer, or fewer bytes that end on the end of the file; a read under a
\* key pair whose operation was resolved, or of an invalid range, fails with
\* IoError.
C13_ReadLengths ==
    [][\A k \in KeyPairs :
           Called(k) /\ call'.method = "read_at" =>
               LET len == call'.args.len
                   offset == call'.args.offset
                   ret == call'.ret
                   kind == ticket[k].kind
               IN  /\ ret.tag = "Ok" /\ kind = "ValidateData" => ret.val = len
                   /\ ret.tag = "Ok" /\ kind = "FetchData" =>
                          \/ ret.val = len
                          \/ ret.val < len /\ offset + ret.val = FileSize
                   /\ os[k].state = "resolved" => ret = Err("IoError")
                   /\ os[k].state = "pending" /\ InvalidRange(kind, len, offset) =>
                          ret = Err("IoError")]_vars

\* A read on a FetchData ticket returned fewer bytes than the buffer holds,
\* up to the end of the file.
C13_Witness ==
    /\ call.method = "read_at"
    /\ call.by \in KeyPairs
    /\ ticket[call.by].kind = "FetchData"
    /\ call.ret.tag = "Ok"
    /\ call.ret.val < call.args.len
    /\ call.args.offset + call.ret.val = FileSize

C15_DeliveredUnderPolicy ==
    \A k \in KeyPairs :
        /\ ticket[k].kind = "ValidateData" =>
               "ValidationRequired" \in reg.hydration_policy
        /\ ticket[k].kind = "FetchPlaceholders" => reg.population_type = "Full"

\* Under required validation and a population that is always full, a
\* validation was delivered and the other operation is of another kind.
C15_Witness ==
    /\ "ValidationRequired" \in reg.hydration_policy
    /\ reg.population_type = "AlwaysFull"
    /\ \E k \in KeyPairs :
           /\ ticket[k].kind = "ValidateData"
           /\ \A j \in KeyPairs \ {k} : pc[j] = "returned"

\* C16: a ticket names the key pair it was made for and the operation the
\* operating system has under that pair; a ticket is made only by the delivery
\* of a callback, for a pair under which no operation is in flight, and by no
\* call of the provider's code; an operation is forgotten only once it ended.
C16_OneOperationPerKeyPair ==
    /\ [](\A k \in KeyPairs :
              ticket[k] # NoTicket =>
                  /\ <<ticket[k].connection_key, ticket[k].transfer_key>> = k
                  /\ ticket[k].kind = os[k].kind)
    /\ [][\A k \in KeyPairs :
              /\ ticket'[k] # ticket[k] /\ ticket'[k] # NoTicket =>
                     /\ ticket[k] = NoTicket /\ os[k].state = "free"
                     /\ pc[k] = "idle" /\ pc'[k] = "running"
                     /\ os'[k].state = "pending"
                     /\ call' = call
              /\ ticket'[k] # ticket[k] /\ ticket'[k] = NoTicket =>
                     os[k].state \notin {"free", "pending"}]_vars

\* An operation runs under a key pair under which an earlier operation was
\* resolved by a ticket call.
C16_Witness ==
    /\ call.by \in KeyPairs
    /\ call.ret.tag = "Ok" /\ call.method = "pass"
    /\ pc[call.by] = "running"
    /\ os[call.by].state = "pending"
    /\ cmds[call.by] = <<>>

\* The ticket methods that send a resolving command.
ResolvingMethods == {"write_at", "pass", "pass_with_blob", "pass_with_placeholder"}

\* C17: a pending operation leaves the pending state only by a resolving
\* method its handler called, by the denial for the error its method
\* returned, or by the operating system's own cancellation; no other step,
\* and no passing of time, resolves it.
C17_PendingUntilResolved ==
    [][\A k \in KeyPairs :
           os[k].state = "pending" /\ os'[k].state # "pending" =>
               \/ /\ Called(k)
                  /\ call'.method \in ResolvingMethods
                  /\ call'.ret.tag = "Ok"
               \/ /\ pc[k] = "running" /\ pc'[k] = "returned"
                  /\ result'[k].tag = "Err"
                  /\ os'[k].state = "denied"
               \/ os'[k].state = "cancelled"]_vars

\* The handler returned Ok(()) without a resolving command, no ticket call
\* is left to make, and the operation is pending still.
C17_Witness ==
    \E k \in KeyPairs :
        /\ pc[k] = "returned"
        /\ result[k] = Ok(0)
        /\ os[k].state = "pending"
        /\ ResolvingCommands(k) = {}
        /\ nCalls = budget
        /\ \A j \in KeyPairs : pc[j] = "returned"

\* C18: the context blob of a Registration is unset or of at most 65536
\* bytes, and its version unset or of at most CF_MAX_PROVIDER_VERSION_LENGTH
\* characters; a step changes the blob or the version only by storing a value
\* within the limit and changes no other field with it; a step that fails an
\* assertion stores nothing; and register() hands over what was stored.
C18_BlobAndVersionBounded ==
    /\ [](/\ reg.blob.some => reg.blob.value.len <= BlobLimit
          /\ reg.version.some =>
                 reg.version.value.len <= CF_MAX_PROVIDER_VERSION_LENGTH
          /\ builder = "registered" =>
                 info.Context = reg.blob /\ info.Version = reg.version)
    /\ [][/\ reg'.blob # reg.blob =>
                 /\ reg'.blob.some
                 /\ reg' = [reg EXCEPT !.blob = reg'.blob]
          /\ reg'.version # reg.version =>
                 /\ reg'.version.some
                 /\ reg' = [reg EXCEPT !.version = reg'.version]
          /\ builder' = "panicked" => reg' = reg]_vars

\* A version and a blob at their limits were stored, and a longer value then
\* failed its assertion.
C18_Witness ==
    /\ builder = "panicked"
    /\ reg.blob = Some(Blob(BlobLimit, 7))
    /\ reg.version = Some(Version(CF_MAX_PROVIDER_VERSION_LENGTH))

\* C19: no HydrationPolicy the builder reaches, and none a Registration
\* stores, has both ValidationRequired and StreamingAllowed.
C19_NoStreamingWithValidation ==
    /\ ~({"ValidationRequired", "StreamingAllowed"} \subseteq policy)
    /\ ~({"ValidationRequired", "StreamingAllowed"} \subseteq reg.hydration_policy)

\* The key pair a ticket holds.
Keys(t) == <<t.connection_key, t.transfer_key>>

\* C20: a ticket holds the key pair it was constructed with from then on: no
\* step changes a ticket once made, and a ticket call sends its command
\* under the pair of the ticket it was called on, so that the commands and the
\* operation of every other pair are as before.
C20_KeysFixed ==
    [][\A k \in KeyPairs :
           /\ ticket[k] # NoTicket =>
                  /\ ticket'[k] = ticket[k]
                  /\ Keys(ticket'[k]) = k
           /\ Called(k) =>
                  /\ \A j \in KeyPairs \ {Keys(ticket[k])} :
                         cmds'[j] = cmds[j] /\ os'[j] = os[j]
                  /\ cmds'[k] # cmds[k] =>
                         /\ Len(cmds'[k]) = Len(cmds[k]) + 1
                         /\ cmds'[k][Len(cmds'[k])].by = k
                         /\ cmds'[k][Len(cmds'[k])].via = "ticket"]_vars

\* The handler of the second key pair had its rename taken after the handler
\* of the first had called its own ticket.
C20_Witness ==
    /\ \A k \in KeyPairs :
           /\ pc[k] = "running"
           /\ Len(cmds[k]) = 1 /\ cmds[k][1].by = k /\ cmds[k][1].via = "ticket"
    /\ call.by \in KeyPairs
    /\ call.by[2] = 2
    /\ ticket[call.by].kind = "Rename"
    /\ call.ret.tag = "Ok"

\* register() made the call.
Made(c) == \E i \in DOMAIN oscalls : oscalls[i] = c

\* The calls register() makes whatever the Registration holds.
ConfigurationCalls ==
    {"StorageProviderSyncRootInfo_new", "SetProtectionMode", "SetShowSiblingsAsGroup",
     "SetHydrationPolicy", "SetHydrationPolicyModifier", "SetPopulationPolicy",
     "SetInSyncPolicy", "SetDisplayNameResource", "SetIconResource",
     "GetFolderFromPathAsync", "get", "SetPath", "SetHardlinkPolicy", "SetId"}

\* C21: in register(), Register is the last call and comes after every
\* configuration call and after the setting of every optional field that is
\* present; a call that fails is the last one made and register() returns
\* its error; an optional field is set only when present; the display name
\* registered is the one set, or else the provider name of the sync root; and
\* register() changes nothing of the Registration.
C21_RegisterAfterConfiguration ==
    /\ [](/\ \A i \in DOMAIN oscalls :
                 oscalls[i] = "Register" =>
                     LET before == {oscalls[j] : j \in 1..(i - 1)}
                     IN  /\ i = Len(oscalls)
                         /\ ConfigurationCalls \subseteq before
                         /\ reg.provider_id.some => "SetProviderId" \in before
                         /\ reg.version.some => "SetVersion" \in before
                         /\ reg.recycle_bin_uri.some => "SetRecycleBinUri" \in before
                         /\ reg.blob.some => "SetContext" \in before
          /\ builder = "failed" =>
                 /\ status = Len(oscalls) /\ status > 0
                 /\ outcome = core_Error(status)
          /\ builder = "registered" =>
                 /\ outcome = Ok(0)
                 /\ Made("Register")
                 /\ info.DisplayNameResource =
                        IF reg.display_name.some
                        THEN reg.display_name.value ELSE provider_name
          /\ Made("SetProviderId") => reg.provider_id.some
          /\ Made("SetVersion") => reg.version.some
          /\ Made("CreateUri") \/ Made("SetRecycleBinUri") => reg.recycle_bin_uri.some
          /\ Made("DataWriter_new") \/ Made("WriteBytes") \/ Made("DetachBuffer")
                 \/ Made("SetContext") => reg.blob.some)
    /\ [][oscalls' # oscalls => reg' = reg /\ policy' = policy]_vars

\* With a version and a blob set, and neither a display name nor a recycle
\* bin, register() set the version and failed in setting the context.
C21_Witness ==
    /\ builder = "failed"
    /\ oscalls # <<>>
    /\ oscalls[Len(oscalls)] = "SetContext"
    /\ Made("SetVersion")
    /\ ~Made("CreateUri") /\ ~Made("Register")
    /\ ~reg.display_name.some
    /\ outcome = core_Error(Len(oscalls))

\* The flag a setter is named after.
FlagOf(name) ==
    CASE name = "require_validation" -> "ValidationRequired"
      [] name = "allow_streaming" -> "StreamingAllowed"
      [] name = "allow_platform_dehydration" -> "AutoDehydrationAllowed"
      [] name = "allow_full_restart_hydration" -> "AllowFullRestartHydration"
      [] name = "file_creation_time" -> "FileCreationTime"
      [] name = "file_readonly" -> "FileReadOnlyAttribute"
      [] name = "file_hidden" -> "FileHiddenAttribute"
      [] name = "file_system" -> "FileSystemAttribute"
      [] name = "file_last_write_time" -> "FileLastWriteTime"
      [] name = "directory_creation_time" -> "DirectoryCreationTime"
      [] name = "directory_readonly" -> "DirectoryReadOnlyAttribute"
      [] name = "directory_hidden" -> "DirectoryHiddenAttribute"
      [] name = "directory_last_write_time" -> "DirectoryLastWriteTime"
      [] name = "none" -> "PreserveInsyncForSyncEngine"

\* C22: on every HydrationPolicy and every SupportedAttributes the builder
\* reaches, a flag setter adds the flag it is named after and nothing else,
\* so it clears no flag; applied twice it gives what it gives applied once;
\* any two setters give the same in either order; and a step of the builder
\* leaves the flags as they were or adds one flag to them.
C22_SettersAddFlags ==
    /\ [](/\ \A m, n \in HydrationPolicySetters :
                 /\ HydrationPolicy_setter(m, policy) = policy \cup {FlagOf(m)}
                 /\ HydrationPolicy_setter(m, HydrationPolicy_setter(m, policy)) =
                        HydrationPolicy_setter(m, policy)
                 /\ HydrationPolicy_setter(m, HydrationPolicy_setter(n, policy)) =
                        HydrationPolicy_setter(n, HydrationPolicy_setter(m, policy))
          /\ \A m, n \in SupportedAttributesSetters :
                 /\ SupportedAttributes_setter(m, attributes) = attributes \cup {FlagOf(m)}
                 /\ SupportedAttributes_setter(m, SupportedAttributes_setter(m, attributes)) =
                        SupportedAttributes_setter(m, attributes)
                 /\ SupportedAttributes_setter(m, SupportedAttributes_setter(n, attributes)) =
                        SupportedAttributes_setter(n, SupportedAttributes_setter(m, attributes)))
    /\ [][/\ policy \subseteq policy'
          /\ attributes \subseteq attributes'
          /\ policy' # policy =>
                 \E m \in HydrationPolicySetters : policy' = policy \cup {FlagOf(m)}
          /\ attributes' # attributes =>
                 \E m \in SupportedAttributesSetters :
                     attributes' = attributes \cup {FlagOf(m)}]_vars

\* none() was applied after another setter and both flags are there, next to
\* a HydrationPolicy with one flag.
C22_Witness ==
    /\ attributes = {"FileHiddenAttribute", "PreserveInsyncForSyncEngine"}
    /\ policy = {"ValidationRequired"}
    /\ builder = "building"

====
